---- MODULE Spec2Model ----
(***************************************************************************)
(* Model of nagios/check-aws-rds.py: one run of the Nagios plugin for      *)
(* Amazon RDS.  A run parses its options, constructs the RDS client (which *)
(* may call describe_db_instances), branches on the mode and, in the       *)
(* threshold-check mode, fetches one metric and compares it with the       *)
(* thresholds.                                                             *)
(*                                                                         *)
(* Numbers (averages, thresholds, the rounded result) are exact decimals   *)
(* counted in thousandths.  Averages and thresholds are multiples of 1/8,  *)
(* which binary floating point represents exactly, so that round(x, 2) is  *)
(* the exact decimal rounding with ties going to the even digit.           *)
(* An optional value is <<>> (None) or <<v>>.                              *)
(* boto3.Session and session.client are local and modelled as succeeding.  *)
(***************************************************************************)
EXTENDS Integers, Sequences, FiniteSets, TLC

VARIABLES options, pc, info, response, result, calls, stdout, termination, exitCode

vars == <<options, pc, info, response, result, calls, stdout, termination, exitCode>>

(* ---- bounds ---- *)
MaxSamples == 3
MaxTime == 3
MaxAvg == 2
MaxThresh == 2

(* ---- Nagios status codes ---- *)
OK == 0
WARNING == 1
CRITICAL == 2
UNKNOWN == 3

None == <<>>
Some(v) == <<v>>
Val(x) == x[1]

(* Python truthiness of an optional string: None and "" are falsy *)
Truthy(x) == x # None /\ Val(x) # ""

(* What a boto3 client call can do: return a response, raise            *)
(* botocore.exceptions.ClientError (an error response of the provider), *)
(* or raise an exception of another class (connection failure, missing  *)
(* credentials), which "except ClientError" does not catch.             *)
Outcomes == {"ok", "ClientError", "OtherError"}

Idents == {None, Some(""), Some("db1")}
Metrics == {None, Some(""), Some("CPUUtilization")}
Thresholds == {None} \cup {Some(125 * k) : k \in 0..MaxThresh}
Averages == {125 * k : k \in 0..MaxAvg}
Datapoint == [Timestamp : 1..MaxTime, Average : Averages]
DatapointSeqs == UNION {[1..n -> Datapoint] : n \in 0..MaxSamples}

(* round(x, 2) on thousandths: nearest hundredth, ties to even *)
round2(m) ==
  LET q == m \div 10
      r == m % 10
  IN  IF r < 5 THEN 10 * q
      ELSE IF r > 5 THEN 10 * (q + 1)
      ELSE IF q % 2 = 0 THEN 10 * q ELSE 10 * (q + 1)

(* sorted(datapoints, key=Timestamp, reverse=True): stable, so among  *)
(* equal timestamps the original order is kept                         *)
RECURSIVE Insert(_, _)
Insert(d, s) ==
  IF s = <<>> THEN <<d>>
  ELSE IF Head(s).Timestamp >= d.Timestamp THEN <<Head(s)>> \o Insert(d, Tail(s))
  ELSE <<d>> \o s

RECURSIVE sorted(_)
sorted(s) ==
  IF s = <<>> THEN <<>>
  ELSE Insert(s[Len(s)], sorted(SubSeq(s, 1, Len(s) - 1)))

(* RDS.__init__: describe the instance when an identifier is given *)
RDS_init_abort(identifier, o) ==
  IF Truthy(identifier)
  THEN [info |-> IF o = "ok" THEN Some("descriptor") ELSE None,
        calls |-> <<[api |-> "describe_instance", outcome |-> o]>>,
        out |-> <<>>,
        raised |-> (o # "ok")]
  ELSE [info |-> None, calls |-> <<>>, out |-> <<>>, raised |-> FALSE]

RDS_init(identifier, o) ==
  IF Truthy(identifier)
  THEN [info |-> IF o = "ok" THEN Some("descriptor") ELSE None,
        calls |-> <<[api |-> "describe_instance", outcome |-> o]>>,
        out |-> IF o = "ClientError" THEN <<"Error retrieving RDS instance">> ELSE <<>>,
        raised |-> (o = "OtherError")]
  ELSE [info |-> None, calls |-> <<>>, out |-> <<>>, raised |-> FALSE]

(* RDS.get_info *)
get_info == info

(* RDS.get_list: the region mapping, or {} on ClientError *)
get_list(o) ==
  [value |-> IF o = "ok" THEN "instances" ELSE "empty",
   calls |-> <<[api |-> "list_instances", outcome |-> o]>>,
   out |-> IF o = "ClientError"
           THEN <<"Listing all RDS instances", "Error listing RDS instances">>
           ELSE <<"Listing all RDS instances">>,
   raised |-> (o = "OtherError")]

(* RDS.get_metric *)
get_metric_first(o, datapoints) ==
  [value |-> IF o = "ok" /\ datapoints # <<>>
             THEN Some(round2(datapoints[1].Average))
             ELSE None,
   calls |-> <<[api |-> "get_metric", outcome |-> o]>>,
   out |-> IF o = "ClientError" THEN <<"Error retrieving metric">>
           ELSE IF o = "ok" /\ datapoints = <<>> THEN <<"No datapoints found">>
           ELSE <<>>,
   raised |-> (o = "OtherError")]

get_metric_zero(o, datapoints) ==
  [value |-> IF o = "ok" /\ datapoints # <<>>
             THEN Some(round2(sorted(datapoints)[1].Average))
             ELSE Some(0),
   calls |-> <<[api |-> "get_metric", outcome |-> o]>>,
   out |-> IF o = "ClientError" THEN <<"Error retrieving metric">>
           ELSE IF o = "ok" /\ datapoints = <<>> THEN <<"No datapoints found">>
           ELSE <<>>,
   raised |-> (o = "OtherError")]

get_metric_retry(o, datapoints) ==
  [value |-> IF o = "ok" /\ datapoints # <<>>
             THEN Some(round2(sorted(datapoints)[1].Average))
             ELSE None,
   calls |-> IF o = "ok"
             THEN <<[api |-> "get_metric", outcome |-> o]>>
             ELSE <<[api |-> "get_metric", outcome |-> o],
                    [api |-> "get_metric", outcome |-> o]>>,
   out |-> IF o = "ClientError" THEN <<"Error retrieving metric">>
           ELSE IF o = "ok" /\ datapoints = <<>> THEN <<"No datapoints found">>
           ELSE <<>>,
   raised |-> (o = "OtherError")]

get_metric(o, datapoints) ==
  [value |-> IF o = "ok" /\ datapoints # <<>>
             THEN Some(round2(sorted(datapoints)[1].Average))
             ELSE None,
   calls |-> <<[api |-> "get_metric", outcome |-> o]>>,
   out |-> IF o = "ClientError" THEN <<"Error retrieving metric">>
           ELSE IF o = "ok" /\ datapoints = <<>> THEN <<"No datapoints found">>
           ELSE <<>>,
   raised |-> (o = "OtherError")]

(* main: the threshold comparison, critical first *)
Status_warnfirst(v, warn, crit) ==
  IF warn # None /\ v >= Val(warn) THEN WARNING
  ELSE IF crit # None /\ v >= Val(crit) THEN CRITICAL
  ELSE OK

Status_default0(v, warn, crit) ==
  IF v >= (IF crit # None THEN Val(crit) ELSE 0) THEN CRITICAL
  ELSE IF v >= (IF warn # None THEN Val(warn) ELSE 0) THEN WARNING
  ELSE OK

Status_truthy(v, warn, crit) ==
  IF crit # None /\ Val(crit) # 0 /\ v >= Val(crit) THEN CRITICAL
  ELSE IF warn # None /\ Val(warn) # 0 /\ v >= Val(warn) THEN WARNING
  ELSE OK

Status(v, warn, crit) ==
  IF crit # None /\ v >= Val(crit) THEN CRITICAL
  ELSE IF warn # None /\ v >= Val(warn) THEN WARNING
  ELSE OK

StatusWord(s) ==
  IF s = CRITICAL THEN "CRITICAL" ELSE IF s = WARNING THEN "WARNING" ELSE "OK"

(* the interpreter ends the run: sys.exit(code), parser.error, or an *)
(* exception nobody catches (traceback, exit status 1)                *)
Terminate(kind, code) ==
  /\ pc' = "done"
  /\ termination' = kind
  /\ exitCode' = Some(code)

Raise == Terminate("uncaught", 1)

Init ==
  /\ options \in [list : BOOLEAN, printinfo : BOOLEAN, ident : Idents,
                  metric : Metrics, warn : Thresholds, crit : Thresholds]
  /\ pc = "construct"
  /\ info = None
  /\ response = [outcome |-> "none", datapoints |-> <<>>]
  /\ result = None
  /\ calls = <<>>
  /\ stdout = <<>>
  /\ termination = "running"
  /\ exitCode = None

(* rds = RDS(region, profile, identifier) *)
Construct ==
  /\ pc = "construct"
  /\ \E o \in Outcomes :
       LET r == RDS_init(options.ident, o) IN
       /\ info' = r.info
       /\ calls' = calls \o r.calls
       /\ stdout' = stdout \o r.out
       /\ IF r.raised
          THEN Raise
          ELSE pc' = "branch" /\ UNCHANGED <<termination, exitCode>>
  /\ UNCHANGED <<options, response, result>>

(* if options.list: ... sys.exit() *)
ListMode ==
  /\ pc = "branch"
  /\ options.list
  /\ \E o \in Outcomes :
       LET r == get_list(o) IN
       /\ calls' = calls \o r.calls
       /\ IF r.raised
          THEN stdout' = stdout \o r.out /\ Raise
          ELSE /\ stdout' = stdout \o r.out \o <<"List of all DB instances", r.value>>
               /\ Terminate("exit", 0)
  /\ UNCHANGED <<options, info, response, result>>

(* elif options.printinfo: ... sys.exit() *)
InfoMode ==
  /\ pc = "branch"
  /\ ~options.list
  /\ options.printinfo
  /\ stdout' = stdout \o <<IF get_info # None THEN "info" ELSE "No DB instance found">>
  /\ Terminate("exit", 0)
  /\ UNCHANGED <<options, info, response, result, calls>>

(* elif not options.ident: parser.error(...) *)
UsageIdent ==
  /\ pc = "branch"
  /\ ~options.list
  /\ ~options.printinfo
  /\ ~Truthy(options.ident)
  /\ stdout' = stdout \o <<"usage: DB identifier is not set.">>
  /\ Terminate("usage", 2)
  /\ UNCHANGED <<options, info, response, result, calls>>

(* elif not options.metric: parser.error(...) *)
UsageMetric ==
  /\ pc = "branch"
  /\ ~options.list
  /\ ~options.printinfo
  /\ Truthy(options.ident)
  /\ ~Truthy(options.metric)
  /\ stdout' = stdout \o <<"usage: Metric is not set.">>
  /\ Terminate("usage", 2)
  /\ UNCHANGED <<options, info, response, result, calls>>

(* result = rds.get_metric(options.metric, now - 5 min, now, 60) *)
FetchMetric ==
  /\ pc = "branch"
  /\ ~options.list
  /\ ~options.printinfo
  /\ Truthy(options.ident)
  /\ Truthy(options.metric)
  /\ \E o \in Outcomes :
       \E dps \in (IF o = "ok" THEN DatapointSeqs ELSE {<<>>}) :
         LET r == get_metric(o, dps) IN
         /\ response' = [outcome |-> o, datapoints |-> dps]
         /\ result' = r.value
         /\ calls' = calls \o r.calls
         /\ stdout' = stdout \o r.out
         /\ IF r.raised
            THEN Raise
            ELSE pc' = "check" /\ UNCHANGED <<termination, exitCode>>
  /\ UNCHANGED <<options, info>>

(* if result is None: print UNKNOWN ...; sys.exit(UNKNOWN) *)
ExitUnknown ==
  /\ pc = "check"
  /\ result = None
  /\ stdout' = stdout \o <<"UNKNOWN">>
  /\ Terminate("exit", UNKNOWN)
  /\ UNCHANGED <<options, info, response, result, calls>>

(* the threshold comparison, the status line and sys.exit(status) *)
Decide ==
  /\ pc = "check"
  /\ result # None
  /\ LET status == Status(Val(result), options.warn, options.crit) IN
       /\ stdout' = stdout \o <<StatusWord(status)>>
       /\ Terminate("exit", status)
  /\ UNCHANGED <<options, info, response, result, calls>>

Next ==
  \/ Construct
  \/ ListMode
  \/ InfoMode
  \/ UsageIdent
  \/ UsageMetric
  \/ FetchMetric
  \/ ExitUnknown
  \/ Decide

Spec == Init /\ [][Next]_vars

(* ---- vocabulary of the properties ---- *)
CheckMode == ~options.list /\ ~options.printinfo
Done == pc = "done"
LastLine == stdout[Len(stdout)]
Called(api) == \E i \in 1..Len(calls) : calls[i].api = api
DistinctTimestamps(dps) ==
  \A i, j \in 1..Len(dps) : i # j => dps[i].Timestamp # dps[j].Timestamp
Latest(dps) ==
  CHOOSE d \in {dps[i] : i \in 1..Len(dps)} :
    \A i \in 1..Len(dps) : dps[i].Timestamp <= d.Timestamp
Dist(a, b) == IF a >= b THEN a - b ELSE b - a
NoSamples ==
  \/ response.outcome = "ClientError"
  \/ response.outcome = "ok" /\ response.datapoints = <<>>

(* C1: a check run that fetched a value v exits CRITICAL when the critical *)
(* threshold is set and v >= critical, else WARNING when the warning       *)
(* threshold is set and v >= warning, else OK; with critical <= warning    *)
(* <= v it exits CRITICAL; the exit code is the one of the printed word.   *)
C1_ThresholdPriority ==
  (Done /\ termination = "exit" /\ result # None) =>
    LET v == Val(result)
        c == options.crit
        w == options.warn
        expected == IF c # None /\ v >= Val(c) THEN 2
                    ELSE IF w # None /\ v >= Val(w) THEN 1
                    ELSE 0
    IN  /\ exitCode = Some(expected)
        /\ LastLine = (IF expected = 2 THEN "CRITICAL"
                       ELSE IF expected = 1 THEN "WARNING" ELSE "OK")
        /\ (c # None /\ w # None /\ Val(c) <= Val(w) /\ Val(w) <= v)
             => (exitCode = Some(2) /\ LastLine = "CRITICAL")

C1_Witness ==
  /\ Done /\ termination = "exit" /\ result # None
  /\ options.crit # None /\ options.warn # None
  /\ Val(options.crit) < Val(options.warn)
  /\ Val(options.warn) <= Val(result)
  /\ exitCode = Some(2)

(* C2: a check run that fetched a value strictly below every threshold *)
(* that is set exits OK; with no threshold set it exits OK for every   *)
(* value.                                                              *)
C2_BelowThresholdsOK ==
  (Done /\ termination = "exit" /\ result # None
     /\ (options.warn = None \/ Val(result) < Val(options.warn))
     /\ (options.crit = None \/ Val(result) < Val(options.crit)))
  => (exitCode = Some(0) /\ LastLine = "OK")

C2_Witness ==
  /\ Done /\ result # None /\ Val(result) > 0
  /\ options.warn = None /\ options.crit = None
  /\ exitCode = Some(0)

(* C3: when the metric fetch returns no samples or fails with a provider *)
(* error, the run prints the UNKNOWN message and exits 3 whatever the    *)
(* thresholds are, and prints no status word of a comparison.            *)
C3_NoValueUnknown ==
  NoSamples =>
    /\ result = None
    /\ Done => /\ termination = "exit"
               /\ exitCode = Some(3)
               /\ LastLine = "UNKNOWN"
               /\ \A i \in 1..Len(stdout) :
                    stdout[i] \notin {"OK", "WARNING", "CRITICAL"}

C3_Witness ==
  /\ Done /\ response.outcome = "ClientError"
  /\ options.crit = Some(0) /\ options.warn = Some(0)
  /\ exitCode = Some(3)

(* C4 (as claimed): in threshold-check mode with the identifier or the *)
(* metric name missing, the run ends in a usage error with a non-zero  *)
(* exit and no provider call is made.                                  *)
C4_UsageErrorBeforeAnyCall ==
  (CheckMode /\ (~Truthy(options.ident) \/ ~Truthy(options.metric))) =>
    /\ calls = <<>>
    /\ Done => (termination = "usage" /\ exitCode # Some(0))

(* C5 (as claimed): every error of a provider call is caught where the *)
(* call is made, so a run ends in a defined exit status and never in   *)
(* an uncaught error.                                                  *)
C5_NoUncaughtError ==
  /\ termination # "uncaught"
  /\ Done => (termination \in {"exit", "usage"} /\ exitCode # None)

(* C6 (as claimed): the list flag makes a list run, else the print-info *)
(* flag an info run; every list run and info run exits OK whether or    *)
(* not the provider calls succeed, and fetches no metric.               *)
C6_ListInfoExitOK ==
  /\ (options.list \/ options.printinfo) =>
       /\ ~Called("get_metric")
       /\ response.outcome = "none"
       /\ Done => (termination = "exit" /\ exitCode = Some(0))
  /\ (options.list /\ Done /\ termination = "exit") =>
       LastLine \in {"instances", "empty"}
  /\ (~options.list /\ options.printinfo /\ Done) =>
       (LastLine \in {"info", "No DB instance found"} /\ ~Called("list_instances"))

(* C7 (as claimed): on samples with distinct timestamps get_metric returns *)
(* the average of the sample with the latest timestamp, in every order of  *)
(* the samples, and None only without samples or when the call fails.      *)
C7_LatestAverage ==
  /\ (response.outcome = "ok" /\ response.datapoints # <<>>
        /\ DistinctTimestamps(response.datapoints))
     => result = Some(Latest(response.datapoints).Average)
  /\ (response.outcome # "none" /\ result = None)
     => (response.datapoints = <<>> \/ response.outcome # "ok")

(* C7 (amended): on samples with distinct timestamps get_metric returns    *)
(* the average of the sample with the latest timestamp rounded to two      *)
(* decimal places (the nearest hundredth, an exact tie going to the even   *)
(* digit), in every order of the samples, and None only without samples or *)
(* when the call fails.                                                    *)
C7_LatestAverageRounded ==
  /\ (response.outcome = "ok" /\ response.datapoints # <<>>
        /\ DistinctTimestamps(response.datapoints))
     => /\ result # None
        /\ LET a == Latest(response.datapoints).Average
               r == Val(result)
           IN  /\ r % 10 = 0
               /\ Dist(r, a) <= 5
               /\ Dist(r, a) = 5 => (r \div 10) % 2 = 0
  /\ (response.outcome # "none" /\ result = None)
     => (response.datapoints = <<>> \/ response.outcome # "ok")

C7_Witness ==
  /\ response.outcome = "ok"
  /\ Len(response.datapoints) = 3
  /\ DistinctTimestamps(response.datapoints)
  /\ response.datapoints[2].Timestamp = 3
  /\ response.datapoints[2].Average = 125
  /\ response.datapoints[1].Average = 250
  /\ response.datapoints[3].Average = 0
  /\ result = Some(120)

(* C8: a run makes at most three provider calls, one after the other;    *)
(* no call is made again after it failed; the metric is fetched at most  *)
(* once, only in threshold-check mode and only after the describe call   *)
(* of the construction has returned.                                     *)
C8_CallDiscipline ==
  /\ Len(calls) <= 3
  /\ \A i, j \in 1..Len(calls) :
       (i < j /\ calls[i].api = calls[j].api) => calls[i].outcome = "ok"
  /\ Cardinality({i \in 1..Len(calls) : calls[i].api = "get_metric"}) <= 1
  /\ \A j \in 1..Len(calls) :
       calls[j].api = "get_metric" =>
         /\ CheckMode
         /\ \E i \in 1..(j - 1) :
              /\ calls[i].api = "describe_instance"
              /\ calls[i].outcome \in {"ok", "ClientError"}

C8_Witness ==
  /\ Done
  /\ Len(calls) = 2
  /\ calls[1] = [api |-> "describe_instance", outcome |-> "ok"]
  /\ calls[2] = [api |-> "get_metric", outcome |-> "ClientError"]

(* C9: when the describe call of the construction fails with a provider  *)
(* error the descriptor stays absent and the run goes on: an info run    *)
(* prints the "not found" message and exits OK, a check run still        *)
(* fetches the metric and its exit status follows from the metric result *)
(* and the thresholds alone (UNKNOWN without samples).                   *)
C9_DescribeErrorNotFatal ==
  (calls # <<>> /\ calls[1] = [api |-> "describe_instance", outcome |-> "ClientError"]) =>
    /\ info = None
    /\ ~(Len(calls) = 1 /\ termination = "uncaught")
    /\ (Done /\ ~options.list /\ options.printinfo) =>
         (termination = "exit" /\ exitCode = Some(0) /\ LastLine = "No DB instance found")
    /\ (Done /\ CheckMode /\ Truthy(options.metric)) => Called("get_metric")
    /\ (Done /\ CheckMode /\ termination = "exit") =>
         exitCode = Some(IF result = None THEN 3
                         ELSE IF options.crit # None /\ Val(result) >= Val(options.crit) THEN 2
                         ELSE IF options.warn # None /\ Val(result) >= Val(options.warn) THEN 1
                         ELSE 0)
    /\ (Done /\ CheckMode /\ NoSamples) => exitCode = Some(3)

C9_Witness ==
  /\ Done /\ CheckMode
  /\ Len(calls) = 2
  /\ calls[1] = [api |-> "describe_instance", outcome |-> "ClientError"]
  /\ calls[2] = [api |-> "get_metric", outcome |-> "ok"]
  /\ info = None
  /\ exitCode = Some(2)

(* C10: zero is an ordinary number: a fetched value of 0 is present (no  *)
(* UNKNOWN exit) and a threshold of 0 is set, so the value 0 gives       *)
(* CRITICAL with critical threshold 0 and WARNING with only the warning  *)
(* threshold 0.                                                          *)
C10_ZeroIsAValue ==
  /\ (response.outcome = "ok" /\ response.datapoints # <<>>
        /\ \A i \in 1..Len(response.datapoints) : response.datapoints[i].Average = 0)
     => /\ result = Some(0)
        /\ Done => (exitCode # Some(3) /\ LastLine # "UNKNOWN")
  /\ (Done /\ termination = "exit" /\ result = Some(0) /\ options.crit = Some(0))
     => (exitCode = Some(2) /\ LastLine = "CRITICAL")
  /\ (Done /\ termination = "exit" /\ result = Some(0)
        /\ options.crit = None /\ options.warn = Some(0))
     => (exitCode = Some(1) /\ LastLine = "WARNING")

C10_Witness ==
  /\ Done /\ result = Some(0)
  /\ options.crit = None /\ options.warn = Some(0)
  /\ exitCode = Some(1)

====
